---- MODULE Spec2Model ----
(***************************************************************************)
(* A model of the two scripts of langchain-chatbot-tutorial:               *)
(*   main.py                   - the chatbot/tools graph with the          *)
(*                               human_assistance interrupt tool, the      *)
(*                               scripted run + resume, and the read loop  *)
(*   react_interrupt_sample.py - the agent/action graph compiled with      *)
(*                               interrupt_before=["action"], the external *)
(*                               update_state and the continuation         *)
(* and of one thread suspended inside human_assistance that is resumed     *)
(* with an arbitrary payload (the tool taken on its own).                  *)
(*                                                                         *)
(* The graph executor, the add_messages reducer and the checkpointer are   *)
(* library code; they are modelled by what the scripts' calls and comments *)
(* rely on (main.py:25-28, react_interrupt_sample.py:100-101, 119-124).    *)
(***************************************************************************)
EXTENDS Integers, Sequences, FiniteSets, TLC

VARIABLES
    prog,         \* which script runs: "main", "sample" or "tool"
    pc,           \* the script's position
    messages,     \* State.messages of the thread's checkpoint
    name,         \* State.name of the thread's checkpoint
    birthday,     \* State.birthday of the thread's checkpoint
    nextNode,     \* the node the checkpoint will run next, or "none"
    interrupt,    \* the pending interrupt of the thread, or "none"
    route,        \* the label the routing function returned at the last agent step
    nextId,       \* the next fresh message id
    resumeValue,  \* the payload of the last resume command
    lineRead,     \* what the last input() of the read loop gave
    farewell,     \* "Goodbye!" was printed
    reads,        \* number of input() calls made
    llmCalls,     \* number of model invocations made
    raised,       \* number of node executions that raised
    lastCalls,    \* number of tool-call requests in the last model response, -1 before
    contributed,  \* number of messages contributed by all updates so far
    fresh         \* number of contributed messages whose id was not yet in the list

vars == <<prog, pc, messages, name, birthday, nextNode, interrupt, route, nextId,
          resumeValue, lineRead, farewell, reads, llmCalls, raised, lastCalls,
          contributed, fresh>>

----------------------------------------------------------------------------
(* Bounds of the model *)

\* model invocations per execution
MaxLLMCalls == 3
\* input() calls of the read loop per execution
MaxReads == 2
\* tool-call requests in one model response
MaxToolCalls == 2

----------------------------------------------------------------------------
(* Strings that the code converts or inspects are sequences of characters *)

Uppers == <<"Q", "U", "I", "T", "E", "X", "Y", "S", "N", "O", "H">>
Lowers == <<"q", "u", "i", "t", "e", "x", "y", "s", "n", "o", "h">>

\* str.lower() on one character
LowerChar(c) ==
    IF \E i \in 1..Len(Uppers) : Uppers[i] = c
    THEN Lowers[CHOOSE i \in 1..Len(Uppers) : Uppers[i] = c]
    ELSE c

\* str.lower()
Lower(s) == [i \in 1..Len(s) |-> LowerChar(s[i])]

\* str.startswith(p)
StartsWith(s, p) == Len(s) >= Len(p) /\ SubSeq(s, 1, Len(p)) = p

Last(s) == s[Len(s)]

\* dict.get(k, default)
Get(d, k, default) == IF k \in DOMAIN d THEN d[k] ELSE default

\* a value of a payload's "correct" key: a str, or something that is no str
Str(s) == [isstr |-> TRUE, chars |-> s]
NotAStr == [isstr |-> FALSE, chars |-> <<>>]

----------------------------------------------------------------------------
(* Messages *)

NoId == 0
NoCall == <<0, 0>>
Unset == "<unset>"

\* the payload slot of a content that quotes no payload
NoPayload == [none |-> TRUE]

\* a text with the values formatted into it
Content(text, line, payload) == [text |-> text, line |-> line, payload |-> payload]

\* {"role": "user", "content": user_input}
UserMsg(line) ==
    [id |-> NoId, role |-> "user", content |-> Content("", line, NoPayload),
     tool_calls |-> <<>>, tool_call_id |-> NoCall]

\* a model response; the provider gives it an id and gives each request a call id
AIMsg(id, calls) ==
    [id |-> id, role |-> "assistant", content |-> Content("<model text>", <<>>, NoPayload),
     tool_calls |-> [i \in 1..Len(calls) |->
                        [name |-> calls[i].name, args |-> calls[i].args, id |-> <<id, i>>]],
     tool_call_id |-> NoCall]

\* ToolMessage(content, tool_call_id=...)
ToolMessage(content, tool_call_id) ==
    [id |-> NoId, role |-> "tool", content |-> content,
     tool_calls |-> <<>>, tool_call_id |-> tool_call_id]

IdSet(msgs) == {msgs[i].id : i \in 1..Len(msgs)}

\* add_messages gives every message that has no id a fresh one
RECURSIVE AssignIds(_, _)
AssignIds(right, first) ==
    IF right = <<>> THEN <<>>
    ELSE IF Head(right).id = NoId
         THEN <<[Head(right) EXCEPT !.id = first]>> \o AssignIds(Tail(right), first + 1)
         ELSE <<Head(right)>> \o AssignIds(Tail(right), first)

NoIdCount(right) == Cardinality({i \in 1..Len(right) : right[i].id = NoId})

\* add_messages merging one message: a message whose id is already in the list
\* replaces that entry in place, any other message is appended

MergeOneAlwaysAppend(left, m) == Append(left, m)

MergeOne(left, m) ==
    IF \E i \in 1..Len(left) : left[i].id = m.id
    THEN [i \in 1..Len(left) |-> IF left[i].id = m.id THEN m ELSE left[i]]
    ELSE Append(left, m)

RECURSIVE MergeAll(_, _)
MergeAll(left, right) ==
    IF right = <<>> THEN left
    ELSE MergeAll(MergeOne(left, Head(right)), Tail(right))

\* the reducer of the messages field
AddMessages(left, right, first) == MergeAll(left, AssignIds(right, first))

\* how many of the messages of an update carry an id the list does not hold yet
FreshCount(left, right) ==
    Cardinality({i \in 1..Len(right) : right[i].id = NoId \/ right[i].id \notin IdSet(left)})

----------------------------------------------------------------------------
(* main.py: the human_assistance tool, lines 51-81 *)

Names == {"LangGraph", "LangChain"}
Birthdays == {"Jan 17, 2024", "Jan 1, 2023"}

\* the tool's result: it raises, or returns Command(update=state_update)
Raises == [raises |-> TRUE, name |-> Unset, birthday |-> Unset, messages |-> <<>>]
CommandUpdate(n, b, msgs) == [raises |-> FALSE, name |-> n, birthday |-> b, messages |-> msgs]

\* human_response.get("correct", "").lower().startswith("y"), line 63
SaysCorrect(human_response) ==
    StartsWith(Lower(Get(human_response, "correct", Str(<<>>)).chars), <<"y">>)

HumanAssistanceIgnoresCorrect(n, b, tool_call_id, human_response) ==
    CommandUpdate(Get(human_response, "name", n), Get(human_response, "birthday", b),
                  <<ToolMessage(Content("Made a correction: ", <<>>, human_response),
                                tool_call_id)>>)

HumanAssistanceKeepsRequest(n, b, tool_call_id, human_response) ==
    IF ~Get(human_response, "correct", Str(<<>>)).isstr THEN Raises
    ELSE IF SaysCorrect(human_response)
    THEN CommandUpdate(n, b, <<ToolMessage(Content("Correct", <<>>, NoPayload), tool_call_id)>>)
    ELSE CommandUpdate(n, b,
                       <<ToolMessage(Content("Made a correction: ", <<>>, human_response),
                                     tool_call_id)>>)

HumanAssistanceNoDefaults(n, b, tool_call_id, human_response) ==
    IF "correct" \notin DOMAIN human_response THEN Raises
    ELSE IF ~human_response["correct"].isstr THEN Raises
    ELSE IF SaysCorrect(human_response)
    THEN CommandUpdate(n, b, <<ToolMessage(Content("Correct", <<>>, NoPayload), tool_call_id)>>)
    ELSE IF {"name", "birthday"} \subseteq DOMAIN human_response
    THEN CommandUpdate(human_response["name"], human_response["birthday"],
                       <<ToolMessage(Content("Made a correction: ", <<>>, human_response),
                                     tool_call_id)>>)
    ELSE Raises

\* the body of human_assistance after interrupt() has returned human_response
HumanAssistance(n, b, tool_call_id, human_response) ==
    \* .lower() of a value that is no str raises AttributeError
    IF ~Get(human_response, "correct", Str(<<>>)).isstr THEN Raises
    ELSE IF SaysCorrect(human_response)
    THEN CommandUpdate(n, b, <<ToolMessage(Content("Correct", <<>>, NoPayload), tool_call_id)>>)
    ELSE CommandUpdate(Get(human_response, "name", n), Get(human_response, "birthday", b),
                       <<ToolMessage(Content("Made a correction: ", <<>>, human_response),
                                     tool_call_id)>>)

\* the payloads an external caller may resume with: any subset of the three keys
CorrectValues ==
    {Str(<<"y", "e", "s">>), Str(<<"Y", "E", "S">>), Str(<<"Y">>), Str(<<"n", "o">>),
     Str(<<>>), Str(<<"o", "y">>), NotAStr}
PayloadNames == Names \cup {"Ada"}
PayloadBirthdays == Birthdays \cup {"Dec 10, 1815"}
PayloadKeys == {"correct", "name", "birthday"}
Payloads ==
    {[k \in K |-> full[k]] :
        full \in [correct : CorrectValues, name : PayloadNames, birthday : PayloadBirthdays],
        K \in SUBSET PayloadKeys}

----------------------------------------------------------------------------
(* What both graphs share: merging a node's or a caller's update *)

\* the messages of `upd` go through the reducer; `made` counts the ids the
\* provider gave to messages of `upd` that the model created in this step
MergeUpdate(upd, made) ==
    /\ messages' = AddMessages(messages, upd, nextId + made)
    /\ nextId' = nextId + made + NoIdCount(upd)
    /\ contributed' = contributed + Len(upd)
    /\ fresh' = fresh + FreshCount(messages, upd)

NoUpdate == UNCHANGED <<messages, nextId, contributed, fresh>>

\* the values every execution starts with
InitCommon ==
    /\ name = Unset
    /\ birthday = Unset
    /\ interrupt = "none"
    /\ route = "none"
    /\ resumeValue = NoPayload
    /\ lineRead = <<>>
    /\ farewell = FALSE
    /\ reads = 0
    /\ llmCalls = 0
    /\ raised = 0
    /\ lastCalls = -1

HACall(n, b) == [name |-> "human_assistance", args |-> [name |-> n, birthday |-> b]]
TavilyCall == [name |-> "tavily_search_results_json", args |-> [query |-> "LangGraph release"]]

----------------------------------------------------------------------------
(* One thread suspended inside human_assistance, resumed by an external caller *)

\* the model has asked for human_assistance(n, b); the tools node is next
InitTool ==
    /\ prog = "tool"
    /\ pc = "t_request"
    /\ \E n \in Names, b \in Birthdays : messages = <<AIMsg(1, <<HACall(n, b)>>)>>
    /\ nextId = 2
    /\ contributed = 1
    /\ fresh = 1
    /\ nextNode = "tools"
    /\ InitCommon

\* the request a suspended human_assistance call was made with
PendingCall == Last(messages).tool_calls[Len(Last(messages).tool_calls)]

\* the tools node runs human_assistance up to interrupt(), main.py:55-61
T_Interrupt ==
    /\ prog = "tool" /\ pc = "t_request"
    /\ pc' = "t_suspended"
    /\ interrupt' = "human_assistance"
    /\ UNCHANGED <<prog, messages, name, birthday, nextNode, route, nextId, resumeValue,
                   lineRead, farewell, reads, llmCalls, raised, lastCalls, contributed, fresh>>

\* Command(resume=payload): the tools node runs human_assistance again and
\* interrupt() returns payload, main.py:62-81
T_Resume(payload) ==
    /\ prog = "tool" /\ pc = "t_suspended"
    /\ resumeValue' = payload
    /\ LET call == PendingCall
           r == HumanAssistance(call.args.name, call.args.birthday, call.id, payload)
       IN IF r.raises
          THEN \* the tool raised: the tools node either reports the error as the
               \* tool's response or lets it abort the run, as it is configured
               \/ /\ pc' = "t_tool_error"
                  /\ MergeUpdate(<<ToolMessage(Content("Error: AttributeError", <<>>, NoPayload),
                                               call.id)>>, 0)
                  /\ interrupt' = "none"
                  /\ nextNode' = "chatbot"
                  /\ raised' = raised
                  /\ UNCHANGED <<name, birthday>>
               \/ /\ pc' = "t_aborted"
                  /\ raised' = raised + 1
                  /\ NoUpdate
                  /\ UNCHANGED <<name, birthday, interrupt, nextNode>>
          ELSE /\ pc' = "t_resumed"
               /\ name' = r.name
               /\ birthday' = r.birthday
               /\ MergeUpdate(r.messages, 0)
               /\ interrupt' = "none"
               /\ nextNode' = "chatbot"
               /\ raised' = raised
    /\ UNCHANGED <<prog, route, lineRead, farewell, reads, llmCalls, lastCalls>>

NextTool == T_Interrupt \/ \E payload \in Payloads : T_Resume(payload)

----------------------------------------------------------------------------
(* react_interrupt_sample.py *)

Queries == {"weather in Quincy, MA", "current weather in Boston"}
SearchCall(q) == [name |-> "search", args |-> [query |-> q]]

\* the responses the model may give: up to MaxToolCalls requests for `search`
RECURSIVE SeqsUpTo(_, _)
SeqsUpTo(S, n) ==
    IF n = 0 THEN {<<>>}
    ELSE LET shorter == SeqsUpTo(S, n - 1)
         IN shorter \cup {Append(q, x) : q \in {t \in shorter : Len(t) = n - 1}, x \in S}

SampleResponses == SeqsUpTo({SearchCall(q) : q \in Queries}, MaxToolCalls)

ShouldContinueAnyMessage(state) ==
    IF \A i \in 1..Len(state.messages) : state.messages[i].tool_calls = <<>>
    THEN "end" ELSE "continue"

\* should_continue, lines 38-46
ShouldContinue(state) ==
    LET last_message == Last(state.messages)
    IN IF last_message.tool_calls = <<>> THEN "end" ELSE "continue"

\* the mapping given to add_conditional_edges, lines 81-86 ("none" is END)
EdgeMap(label) == IF label = "continue" THEN "action" ELSE "none"

\* where the script goes on when a stream(...) call returns
SampleAfterRun(p) == IF p = "s_run1" THEN "s_update" ELSE "s_done"

InitSample ==
    /\ prog = "sample"
    /\ pc = "s_start"
    /\ messages = <<>>
    /\ nextId = 1
    /\ contributed = 0
    /\ fresh = 0
    /\ nextNode = "none"
    /\ InitCommon

\* app.stream({"messages": inputs}, thread), lines 104-107
S_Stream ==
    /\ prog = "sample" /\ pc = "s_start"
    /\ MergeUpdate(<<UserMsg(<<"search for the weather in Quincy, MA now">>)>>, 0)
    /\ nextNode' = "agent"
    /\ pc' = "s_run1"
    /\ UNCHANGED <<prog, name, birthday, interrupt, route, resumeValue, lineRead, farewell,
                   reads, llmCalls, raised, lastCalls>>

\* the agent node (call_model, lines 50-54), then the conditional edge; with
\* interrupt_before=["action"] the run stops before the action node (line 102)
S_Agent(calls) ==
    /\ prog = "sample" /\ pc \in {"s_run1", "s_run2"} /\ nextNode = "agent"
    /\ llmCalls < MaxLLMCalls
    /\ llmCalls' = llmCalls + 1
    /\ MergeUpdate(<<AIMsg(nextId, calls)>>, 1)
    /\ route' = ShouldContinue([messages |-> messages'])
    /\ nextNode' = EdgeMap(route')
    /\ interrupt' = IF nextNode' = "action" THEN "before_action" ELSE "none"
    /\ pc' = SampleAfterRun(pc)
    /\ lastCalls' = Len(calls)
    /\ UNCHANGED <<prog, name, birthday, resumeValue, lineRead, farewell, reads, raised>>

\* model.invoke raises: nothing catches it, the script ends with the error
S_AgentRaises ==
    /\ prog = "sample" /\ pc \in {"s_run1", "s_run2"} /\ nextNode = "agent"
    /\ llmCalls < MaxLLMCalls
    /\ llmCalls' = llmCalls + 1
    /\ raised' = raised + 1
    /\ pc' = "crashed"
    /\ NoUpdate
    /\ UNCHANGED <<prog, name, birthday, nextNode, interrupt, route, resumeValue, lineRead,
                   farewell, reads, lastCalls>>

\* get_state, the edit of the first tool call's args, update_state: lines 109-129
S_UpdateState ==
    /\ prog = "sample" /\ pc = "s_update"
    /\ LET last_message == Last(messages)
       IN IF last_message.tool_calls = <<>>
          THEN \* tool_calls[0] of an empty list: IndexError ends the script
               /\ pc' = "crashed"
               /\ NoUpdate
          ELSE /\ MergeUpdate(<<[last_message EXCEPT
                                   !.tool_calls[1].args = [query |-> "current weather in Boston"]]>>, 0)
               /\ pc' = "s_resume"
    /\ route' = "none"
    /\ UNCHANGED <<prog, name, birthday, nextNode, interrupt, resumeValue, lineRead, farewell,
                   reads, llmCalls, raised, lastCalls>>

\* one tool response per request of the last message
SearchResults(calls) ==
    [i \in 1..Len(calls) |->
        ToolMessage(Content("It's sunny in Boston, ...", <<>>, NoPayload), calls[i].id)]

\* app.stream(None, thread), lines 131-132: the run goes on with the action node
S_Continue ==
    /\ prog = "sample" /\ pc = "s_resume" /\ interrupt = "before_action"
    /\ interrupt' = "none"
    /\ MergeUpdate(SearchResults(Last(messages).tool_calls), 0)
    /\ nextNode' = "agent"
    /\ pc' = "s_run2"
    /\ UNCHANGED <<prog, name, birthday, route, resumeValue, lineRead, farewell, reads,
                   llmCalls, raised, lastCalls>>

NextSample ==
    \/ S_Stream
    \/ \E calls \in SampleResponses : S_Agent(calls)
    \/ S_AgentRaises
    \/ S_UpdateState
    \/ S_Continue

----------------------------------------------------------------------------
(* main.py *)

\* the responses the model may give: up to MaxToolCalls requests for the bound tools
MainResponses ==
    SeqsUpTo({TavilyCall} \cup {HACall(n, b) : n \in Names, b \in Birthdays}, MaxToolCalls)

\* a node's result: it raises, or returns {"messages": [...]}
NodeRaises == [raises |-> TRUE, messages |-> <<>>]
NodeReturns(msgs) == [raises |-> FALSE, messages |-> msgs]

ChatbotNoAssert(message) == NodeReturns(<<message>>)

\* chatbot, lines 36-44, once llm_with_tools.invoke has given `message`
Chatbot(message) ==
    IF ~(Len(message.tool_calls) <= 1) THEN NodeRaises
    ELSE NodeReturns(<<message>>)

\* tools_condition, lines 97-100 ("none" is END)
ToolsCondition(state) ==
    IF Last(state.messages).tool_calls = <<>> THEN "none" ELSE "tools"

\* the resume payload of the script, lines 149-154
ScriptPayload == [name |-> "LangGraph", birthday |-> "Jan 17, 2024"]
\* the first question of the script, lines 135-138
ScriptQuestion == <<"Can you look up when LangGraph was released? ...">>
\* the fallback question, line 169
CannedQuestion == <<"What do you know about LangGraph?">>
\* what lineRead holds when input() raised
InputError == <<"<input() raised>">>

\* the lines input() may give
Lines ==
    {<<"q">>, <<"Q">>, <<"q", "u", "i", "t">>, <<"Q", "U", "I", "T">>, <<"Q", "u", "i", "T">>,
     <<"e", "x", "i", "t">>, <<"E", "x", "I", "t">>, <<"h", "i">>, <<"q", "u">>}

QuitWords == {<<"q", "u", "i", "t">>, <<"e", "x", "i", "t">>, <<"q">>}

IsQuitInputCaseSensitive(user_input) == user_input \in QuitWords

\* user_input.lower() in ["quit", "exit", "q"], line 163
IsQuitInput(user_input) == Lower(user_input) \in QuitWords

InRun == {"in_run1", "in_resume", "in_turn", "in_fallback"}

AfterRunNoBreak(p) ==
    CASE p = "in_run1" -> "at_resume"
      [] p = "in_resume" -> "loop"
      [] p = "in_turn" -> "loop"
      [] p = "in_fallback" -> "loop"

\* where main goes on when a graph.stream(...) loop ends: lines 149, 160, 160, 172
AfterRun(p) ==
    CASE p = "in_run1" -> "at_resume"
      [] p = "in_resume" -> "loop"
      [] p = "in_turn" -> "loop"
      [] p = "in_fallback" -> "done"

\* graph.stream({"messages": [{"role": "user", "content": user_input}]}, config):
\* the input is merged into the thread's state and the run starts at the entry
\* point; whatever was pending on the thread is dropped
StartStream(user_input, p) ==
    /\ MergeUpdate(<<UserMsg(user_input)>>, 0)
    /\ nextNode' = "chatbot"
    /\ interrupt' = "none"
    /\ pc' = p

\* the except clause of the read loop, lines 167-172, up to the start of its run
Fallback == StartStream(CannedQuestion, "in_fallback")

\* an exception leaves graph.stream while main is at p: in the try block of the
\* read loop the bare except takes it, anywhere else it ends main
Propagate(p) ==
    IF p = "in_turn" THEN Fallback
    ELSE /\ pc' = "crashed"
         /\ NoUpdate
         /\ UNCHANGED <<nextNode, interrupt>>

InitMain ==
    /\ prog = "main"
    /\ pc = "m_start"
    /\ messages = <<>>
    /\ nextId = 1
    /\ contributed = 0
    /\ fresh = 0
    /\ nextNode = "none"
    /\ InitCommon

\* the first graph.stream of the script, lines 139-145
M_Run1 ==
    /\ prog = "main" /\ pc = "m_start"
    /\ StartStream(ScriptQuestion, "in_run1")
    /\ UNCHANGED <<prog, name, birthday, route, resumeValue, lineRead, farewell, reads,
                   llmCalls, raised, lastCalls>>

\* the chatbot node with the model answering `calls`, then the conditional edge
M_Chatbot(calls) ==
    /\ prog = "main" /\ pc \in InRun /\ nextNode = "chatbot"
    /\ llmCalls < MaxLLMCalls
    /\ llmCalls' = llmCalls + 1
    /\ lastCalls' = Len(calls)
    /\ LET r == Chatbot(AIMsg(nextId, calls))
       IN IF r.raises
          THEN /\ raised' = raised + 1
               /\ Propagate(pc)
          ELSE /\ raised' = raised
               /\ MergeUpdate(r.messages, 1)
               /\ nextNode' = ToolsCondition([messages |-> messages'])
               /\ pc' = IF nextNode' = "none" THEN AfterRun(pc) ELSE pc
               /\ UNCHANGED interrupt
    /\ UNCHANGED <<prog, name, birthday, route, resumeValue, lineRead, farewell, reads>>

\* the chatbot node with llm_with_tools.invoke raising (line 37)
M_LlmRaises ==
    /\ prog = "main" /\ pc \in InRun /\ nextNode = "chatbot"
    /\ llmCalls < MaxLLMCalls
    /\ llmCalls' = llmCalls + 1
    /\ raised' = raised + 1
    /\ Propagate(pc)
    /\ UNCHANGED <<prog, name, birthday, route, resumeValue, lineRead, farewell, reads,
                   lastCalls>>

HasInterruptTool(calls) == \E i \in 1..Len(calls) : calls[i].name = "human_assistance"

\* the tools node (line 93) on the requests `calls`, human_assistance's
\* interrupt() returning `payload`: the responses of the tools, in order
RECURSIVE ToolMessages(_, _)
ToolMessages(calls, payload) ==
    IF calls = <<>> THEN <<>>
    ELSE LET c == Head(calls)
         IN (IF c.name = "human_assistance"
             THEN HumanAssistance(c.args.name, c.args.birthday, c.id, payload).messages
             ELSE <<ToolMessage(Content("<search results>", <<>>, NoPayload), c.id)>>)
            \o ToolMessages(Tail(calls), payload)

\* the Command(update=...) of the last human_assistance request among `calls`
LastAssistance(calls, payload) ==
    LET i == CHOOSE k \in 1..Len(calls) :
                 /\ calls[k].name = "human_assistance"
                 /\ \A j \in (k + 1)..Len(calls) : calls[j].name # "human_assistance"
    IN HumanAssistance(calls[i].args.name, calls[i].args.birthday, calls[i].id, payload)

\* the tools node on the requests of the last model message
M_Tools ==
    /\ prog = "main" /\ pc \in InRun /\ nextNode = "tools"
    /\ LET calls == Last(messages).tool_calls
       IN IF HasInterruptTool(calls)
          THEN \* interrupt() suspends the run inside the tool (lines 55-61) and
               \* the stream ends with the interrupt as its last event
               \/ /\ interrupt' = "human_assistance"
                  /\ pc' = AfterRun(pc)
                  /\ NoUpdate
                  /\ UNCHANGED nextNode
               \* line 114 reads value["messages"] of every event; on the
               \* interrupt event, which holds no state update, that raises
               \/ /\ pc \in {"in_turn", "in_fallback"}
                  /\ Propagate(pc)
          ELSE /\ MergeUpdate(ToolMessages(calls, NoPayload), 0)
               /\ nextNode' = "chatbot"
               /\ UNCHANGED <<pc, interrupt>>
    /\ UNCHANGED <<prog, name, birthday, route, resumeValue, lineRead, farewell, reads,
                   llmCalls, raised, lastCalls>>

\* graph.stream(human_command, config), lines 149-156
M_Resume ==
    /\ prog = "main" /\ pc = "at_resume"
    /\ resumeValue' = ScriptPayload
    /\ IF interrupt = "human_assistance"
       THEN LET calls == Last(messages).tool_calls
                r == LastAssistance(calls, ScriptPayload)
            IN IF r.raises
               THEN /\ pc' = "crashed"
                    /\ raised' = raised + 1
                    /\ NoUpdate
                    /\ UNCHANGED <<name, birthday, nextNode, interrupt>>
               ELSE /\ name' = r.name
                    /\ birthday' = r.birthday
                    /\ MergeUpdate(ToolMessages(calls, ScriptPayload), 0)
                    /\ interrupt' = "none"
                    /\ nextNode' = "chatbot"
                    /\ pc' = "in_resume"
                    /\ raised' = raised
       ELSE \* the first run ended without an interrupt: there is nothing to resume
            /\ pc' = AfterRun("in_resume")
            /\ NoUpdate
            /\ UNCHANGED <<name, birthday, nextNode, interrupt, raised>>
    /\ UNCHANGED <<prog, route, lineRead, farewell, reads, llmCalls, lastCalls>>

\* one pass of the read loop with input() giving user_input, lines 160-166
M_Read(user_input) ==
    /\ prog = "main" /\ pc = "loop"
    /\ reads < MaxReads
    /\ reads' = reads + 1
    /\ lineRead' = user_input
    /\ IF IsQuitInput(user_input)
       THEN /\ farewell' = TRUE
            /\ pc' = "done"
            /\ NoUpdate
            /\ UNCHANGED <<nextNode, interrupt>>
       ELSE /\ StartStream(user_input, "in_turn")
            /\ UNCHANGED farewell
    /\ UNCHANGED <<prog, name, birthday, route, resumeValue, llmCalls, raised, lastCalls>>

\* one pass of the read loop with input() raising, lines 160-162 and 167-171
M_ReadFails ==
    /\ prog = "main" /\ pc = "loop"
    /\ reads < MaxReads
    /\ reads' = reads + 1
    /\ lineRead' = InputError
    /\ Fallback
    /\ UNCHANGED <<prog, name, birthday, route, resumeValue, farewell, llmCalls, raised,
                   lastCalls>>

NextMain ==
    \/ M_Run1
    \/ \E calls \in MainResponses : M_Chatbot(calls)
    \/ M_LlmRaises
    \/ M_Tools
    \/ M_Resume
    \/ \E user_input \in Lines : M_Read(user_input)
    \/ M_ReadFails

----------------------------------------------------------------------------

Init == InitMain \/ InitSample \/ InitTool

Next == NextMain \/ NextSample \/ NextTool

Spec == Init /\ [][Next]_vars

----------------------------------------------------------------------------
(* What the claims speak about *)

\* the tool-call request that the last message of the transcript answers
AnsweredCall ==
    LET id == Last(messages).tool_call_id
        i == CHOOSE k \in 1..Len(messages) :
                 \E j \in 1..Len(messages[k].tool_calls) : messages[k].tool_calls[j].id = id
        j == CHOOSE k \in 1..Len(messages[i].tool_calls) : messages[i].tool_calls[k].id = id
    IN messages[i].tool_calls[j]

\* the external resume of the suspended thread has been processed
ResumeProcessed == prog = "tool" /\ pc \in {"t_resumed", "t_tool_error", "t_aborted"}

\* the state right after a resume went through human_assistance
JustResumed ==
    \/ prog = "tool" /\ pc = "t_resumed"
    \/ /\ prog = "main" /\ pc = "in_resume" /\ nextNode = "chatbot"
       /\ Last(messages).role = "tool"
       /\ AnsweredCall.name = "human_assistance"

\* the request a processed resume was for
ResumedRequest == IF Last(messages).role = "tool" THEN AnsweredCall ELSE PendingCall

Yes == Str(<<"y", "e", "s">>)

\* the payload carries a name or a birthday that differs from the request's
CarriesCorrection(payload, request) ==
    \/ "name" \in DOMAIN payload /\ payload["name"] # request.args.name
    \/ "birthday" \in DOMAIN payload /\ payload["birthday"] # request.args.birthday

\* the payload does not say that the request was correct
NotAffirmative(payload) ==
    \/ "correct" \notin DOMAIN payload
    \/ /\ payload["correct"].isstr
       /\ \/ payload["correct"].chars = <<>>
          \/ payload["correct"].chars[1] \notin {"y", "Y"}

\* the state holds the payload's values where it has them, the request's elsewhere
HoldsPayloadOrRequest(payload, request) ==
    /\ name = IF "name" \in DOMAIN payload THEN payload["name"] ELSE request.args.name
    /\ birthday = IF "birthday" \in DOMAIN payload THEN payload["birthday"]
                  ELSE request.args.birthday

\* the last message is the tool response to the request, quoting the payload
DocumentsCorrection(payload, request) ==
    /\ Last(messages).role = "tool"
    /\ Last(messages).tool_call_id = request.id
    /\ Last(messages).content.text = "Made a correction: "
    /\ Last(messages).content.payload = payload

\* C1: after a resume whose payload has correct = "yes", whatever else it
\* carries, the resume went through and name and birthday of the state are
\* those of the original tool-call request.
C1_CorrectYesKeepsRequest ==
    (ResumeProcessed /\ "correct" \in DOMAIN resumeValue /\ resumeValue["correct"] = Yes)
        => /\ pc = "t_resumed"
           /\ name = ResumedRequest.args.name
           /\ birthday = ResumedRequest.args.birthday

C1_Witness ==
    /\ prog = "tool" /\ pc = "t_resumed"
    /\ DOMAIN resumeValue = PayloadKeys
    /\ resumeValue["correct"] = Yes
    /\ resumeValue["name"] = "Ada"
    /\ resumeValue["birthday"] = "Dec 10, 1815"
    /\ name = "LangGraph"
    /\ birthday = "Jan 17, 2024"

\* C2 as stated: after a resume whose payload carries a corrected name and/or
\* birthday, the state holds the payload's values and the tool response
\* documents the correction. (Stated for the payloads whose correct value, when
\* there is one, is a string.)
C2_Original ==
    (ResumeProcessed /\ CarriesCorrection(resumeValue, ResumedRequest)
         /\ ("correct" \in DOMAIN resumeValue => resumeValue["correct"].isstr))
        => /\ pc = "t_resumed"
           /\ "name" \in DOMAIN resumeValue => name = resumeValue["name"]
           /\ "birthday" \in DOMAIN resumeValue => birthday = resumeValue["birthday"]
           /\ DocumentsCorrection(resumeValue, ResumedRequest)

\* C2 as amended: after a resume whose payload carries a corrected name and/or
\* birthday and whose correct value is absent or a string that does not begin
\* with y or Y, the state holds the payload's name and birthday where the
\* payload has them and the request's where it has not, and the tool response
\* appended to the transcript is "Made a correction: " followed by the payload.
\* This covers the scripted resume of main.py as well.
C2_CorrectionOverwrites ==
    /\ (ResumeProcessed /\ CarriesCorrection(resumeValue, ResumedRequest)
            /\ NotAffirmative(resumeValue))
          => pc = "t_resumed"
    /\ (JustResumed /\ CarriesCorrection(resumeValue, ResumedRequest)
            /\ NotAffirmative(resumeValue))
          => /\ HoldsPayloadOrRequest(resumeValue, ResumedRequest)
             /\ DocumentsCorrection(resumeValue, ResumedRequest)

C2_Witness ==
    /\ prog = "tool" /\ pc = "t_resumed"
    /\ DOMAIN resumeValue = {"name", "correct"}
    /\ resumeValue["correct"] = Str(<<"n", "o">>)
    /\ name = "Ada"
    /\ birthday = AnsweredCall.args.birthday
    /\ Last(messages).content.text = "Made a correction: "

----------------------------------------------------------------------------

\* the spellings of `word` in any letter case, among the lines input() may give
CaseVariants(word) ==
    {l \in Lines :
        /\ Len(l) = Len(word)
        /\ \A i \in 1..Len(word) :
              \/ l[i] = word[i]
              \/ \E k \in 1..Len(Lowers) : Lowers[k] = word[i] /\ Uppers[k] = l[i]}

QuitSpellings ==
    CaseVariants(<<"q", "u", "i", "t">>) \cup CaseVariants(<<"e", "x", "i", "t">>)
        \cup CaseVariants(<<"q">>)

UserCount(msgs) == Cardinality({i \in 1..Len(msgs) : msgs[i].role = "user"})

CannedCount(msgs) ==
    Cardinality({i \in 1..Len(msgs) :
                    msgs[i].role = "user" /\ msgs[i].content.line = CannedQuestion})

\* C3: whenever should_continue has just routed, its label is "end", mapped to
\* the terminal marker, if the last message has no tool-call request, and
\* "continue", mapped to the action node, if it has exactly one; and it is the
\* label should_continue gives for a state that holds the last message alone.
C3_Routing ==
    (prog = "sample" /\ route # "none")
        => LET last_message == Last(messages)
           IN /\ Len(last_message.tool_calls) = 0 => (route = "end" /\ nextNode = "none")
              /\ Len(last_message.tool_calls) = 1
                    => (route = "continue" /\ nextNode = "action")
              /\ route = ShouldContinue([messages |-> <<last_message>>])

C3_Witness ==
    /\ prog = "sample" /\ pc = "s_done"
    /\ route = "end"
    /\ Len(messages) = 4
    /\ Len(messages[2].tool_calls) = 1
    /\ Len(Last(messages).tool_calls) = 0

\* C4: a pass of the read loop that reads quit, exit or q in any letter case
\* prints the farewell and ends the loop without starting a run or invoking
\* the model, and once main has ended no model invocation follows.
C4_QuitEndsLoop ==
    [][prog = "main" =>
        /\ (reads' = reads + 1 /\ lineRead' \in QuitSpellings)
              => /\ pc' = "done"
                 /\ farewell'
                 /\ llmCalls' = llmCalls
                 /\ messages' = messages
                 /\ nextNode' = nextNode
        /\ pc = "done" => llmCalls' = llmCalls]_vars

C4_Witness ==
    /\ prog = "main" /\ pc = "done"
    /\ lineRead = <<"Q", "u", "i", "T">>
    /\ farewell
    /\ reads = 2
    /\ llmCalls > 0

\* C5 as stated: the length of the messages field is the number of messages
\* that the updates contributed.
C5_Original == Len(messages) = contributed

\* C5 as amended: every update makes the messages field longer by the number
\* of its messages whose id the field does not hold yet; a message whose id is
\* already there replaces that entry in place, which only the update_state
\* call of the interrupt sample does; the field never shrinks and the order
\* of the message ids never changes.
C5_MergeById ==
    [][/\ Len(messages') = Len(messages) + (fresh' - fresh)
       /\ Len(messages') >= Len(messages)
       /\ \A i \in 1..Len(messages) : messages'[i].id = messages[i].id
       /\ (\E i \in 1..Len(messages) : messages'[i] # messages[i])
             => (prog = "sample" /\ pc = "s_update")]_vars

C5_Witness ==
    /\ prog = "sample" /\ pc = "s_resume"
    /\ Len(messages) = 2
    /\ contributed = 3
    /\ fresh = 2
    /\ Len(messages[2].tool_calls) = 2
    /\ messages[2].tool_calls[1].args.query = "current weather in Boston"
    /\ messages[2].tool_calls[2].args.query = "weather in Quincy, MA"

\* C6: in main.py no assistant message of the state carries more than one
\* tool-call request, and when the thread is suspended inside
\* human_assistance its last message is an assistant message with exactly one
\* request, the human_assistance call.
C6_AtMostOneToolCall ==
    prog = "main" =>
        /\ \A i \in 1..Len(messages) :
              messages[i].role = "assistant" => Len(messages[i].tool_calls) <= 1
        /\ interrupt = "human_assistance"
              => /\ Last(messages).role = "assistant"
                 /\ Len(Last(messages).tool_calls) = 1
                 /\ Last(messages).tool_calls[1].name = "human_assistance"

C6_Witness ==
    /\ prog = "main"
    /\ interrupt = "human_assistance"
    /\ raised > 0
    /\ Len(Last(messages).tool_calls) = 1

\* C8: a pass of the read loop in which input() fails submits the canned
\* question to the graph and goes on in the fallback run instead of ending
\* with the error; the fallback run submits nothing more, reads nothing more,
\* and when it ends main ends.
C8_InputFailureFallback ==
    [][prog = "main" =>
        /\ (reads' = reads + 1 /\ lineRead' = InputError)
              => /\ pc' = "in_fallback"
                 /\ Len(messages') = Len(messages) + 1
                 /\ Last(messages').role = "user"
                 /\ Last(messages').content.line = CannedQuestion
                 /\ nextNode' = "chatbot"
                 /\ ~farewell'
        /\ pc = "in_fallback"
              => /\ pc' \in {"in_fallback", "done", "crashed"}
                 /\ UserCount(messages') = UserCount(messages)
                 /\ reads' = reads
                 /\ (nextNode' = "none" \/ interrupt' # "none") => pc' \in {"done", "crashed"}
                 /\ (pc' = "in_fallback") => nextNode' \in {"chatbot", "tools"}]_vars

C8_Witness ==
    /\ prog = "main" /\ pc = "done"
    /\ lineRead = InputError
    /\ ~farewell
    /\ CannedCount(messages) = 1
    /\ Last(messages).role = "assistant"
    /\ nextNode = "none"

\* C9 as stated: whenever a node raises, the run is aborted with the state
\* left as it was and the error ends main (it reaches main's caller).
C9_Original ==
    [][(prog = "main" /\ raised' = raised + 1)
          => (pc' = "crashed" /\ messages' = messages)]_vars

\* C10 as stated: while a thread is suspended no new user message enters its
\* state, and the suspension ends only by the script's resume.
C10_Original ==
    [][interrupt # "none" =>
          /\ UserCount(messages') = UserCount(messages)
          /\ interrupt' = "none"
                => \/ prog = "main" /\ pc = "at_resume"
                   \/ prog = "sample" /\ pc = "s_resume"
                   \/ prog = "tool" /\ pc = "t_suspended"]_vars

====
